---- MODULE Spec2Model ----
(***************************************************************************)
(* Vectorized Petri-net state machine of metamodel-rs (src/src/vasm.rs):    *)
(* the compilation of a net into a StateMachine (from_model), the vector    *)
(* arithmetic (vector_add), guard evaluation (guard_fails), the three       *)
(* firing policies and the transform dispatch.                              *)
(***************************************************************************)
EXTENDS Integers, Sequences, FiniteSets, TLC

VARIABLES
    net,              \* the declared PetriNet handed to from_model
    pc,               \* "declared" | "ready" | "failed" (construction panicked)
    sm,               \* the compiled StateMachine (immutable once built)
    guard_first,      \* per transition: the guard key its HashMap enumerates first
    overflow_checks,  \* build profile: TRUE = integer overflow panics, FALSE = wraps
    marking,          \* the marking the caller owns
    call,             \* inputs and trace of the last transform call
    tx,               \* what the last transform call produced
    tx2,              \* what a second evaluation of the same call produced
    trail             \* where the caller's marking comes from, and the firing last applied

vars == <<net, pc, sm, guard_first, overflow_checks, marking, call, tx, tx2, trail>>

----------------------------------------------------------------------------
(* Bounds of the explored inputs. *)

MaxTokens == 2      \* caller markings hold -1 .. MaxTokens per slot
MaxMultiple == 2    \* multipliers range over -1 .. MaxMultiple
MaxWeight == 2      \* arc weights range over 1 .. MaxWeight

----------------------------------------------------------------------------
(* Option<T>: None is the empty tuple, Some(v) the one-element tuple. *)

None == << >>
Some(v) == <<v>>
unwrap_or(o, d) == IF o = None THEN d ELSE o[1]

----------------------------------------------------------------------------
(* i32 arithmetic (type Vector = Vec<i32>).  Values are kept inside           *)
(* I32_MIN .. I32_MAX; an operation that leaves the range panics when the     *)
(* build has overflow checks and wraps modulo 2^32 otherwise.                 *)

I32_MAX == 2147483647
I32_MIN == (0 - I32_MAX) - 1

add_overflows(a, b) ==
    IF b >= 0 THEN a > I32_MAX - b ELSE a < I32_MIN - b

wrapping_add(a, b) ==
    IF ~add_overflows(a, b) THEN a + b
    ELSE IF b >= 0 THEN ((a - I32_MAX) + (b - I32_MAX)) - 2
    ELSE ((a + I32_MAX) + (b + I32_MAX)) + 2

wrapping_neg(a) == IF a = I32_MIN THEN I32_MIN ELSE 0 - a

mul_overflows(a, b) ==
    IF a = 0 \/ b = 0 THEN FALSE
    ELSE IF a > 0 /\ b > 0 THEN a > I32_MAX \div b
    ELSE IF a > 0 /\ b < 0 THEN b < ((I32_MIN + a) - 1) \div a
    ELSE IF a < 0 /\ b > 0 THEN a < ((I32_MIN + b) - 1) \div b
    ELSE IF a = I32_MIN \/ b = I32_MIN THEN TRUE
    ELSE (0 - a) > I32_MAX \div (0 - b)

(* a * b modulo 2^32 as an i32, computed on 16-bit halves so that no         *)
(* intermediate value leaves the i32 range: with a = ah * 2^16 + al and      *)
(* b = bh * 2^16 + bl, a * b = (ah * bl + al * bh) * 2^16 + al * bl modulo   *)
(* 2^32, and al * bl is summed from two partial products of al with the      *)
(* bytes of bl.                                                              *)
wrapping_mul(a, b) ==
    LET al == a % 65536
        ah == a \div 65536
        bl == b % 65536
        bh == b \div 65536
        mid == (((ah * bl) % 65536) + ((al * bh) % 65536)) % 65536
        p1 == al * (bl \div 256)
        p0 == al * (bl % 256)
        lo == (p1 % 256) * 256 + p0
        hi == (mid + (p1 \div 256) + (lo \div 65536)) % 65536
    IN IF ~mul_overflows(a, b) THEN a * b
       ELSE IF hi >= 32768 THEN (hi - 65536) * 65536 + (lo % 65536)
       ELSE hi * 65536 + (lo % 65536)

----------------------------------------------------------------------------
(* Outcomes of a call: a value, or a panic (unwrap on None, index out of     *)
(* bounds, assert!, arithmetic overflow under overflow checks).              *)

Panic == [kind |-> "panic"]
NoCall == [kind |-> "none"]


(* vector_add_from with the capacity test off by one (<= for <). *)
RECURSIVE vector_add_from_tight(_, _, _, _, _, _)
vector_add_from_tight(capacity, state, delta, multiple, i, acc) ==
    IF i > Len(state) THEN acc
    ELSE
      LET d == IF i <= Len(delta) THEN delta[i] ELSE 0
          prod == wrapping_mul(d, multiple)
      IN IF overflow_checks
            /\ (mul_overflows(d, multiple) \/ add_overflows(state[i], prod))
         THEN Panic
         ELSE
           LET o == wrapping_add(state[i], prod)
               pushed == [acc EXCEPT !.output = Append(@, o)]
           IN IF o < 0
              THEN vector_add_from_tight(capacity, state, delta, multiple, i + 1,
                       [pushed EXCEPT !.underflow = TRUE, !.ok = FALSE])
              ELSE IF i > Len(capacity) THEN Panic
              ELSE IF capacity[i] > 0 /\ capacity[i] - o <= 0
              THEN vector_add_from_tight(capacity, state, delta, multiple, i + 1,
                       [pushed EXCEPT !.overflow = TRUE, !.ok = FALSE])
              ELSE vector_add_from_tight(capacity, state, delta, multiple, i + 1, pushed)


(* vector_add_from that tests every slot against its capacity, a capacity of *)
(* 0 included.                                                               *)
RECURSIVE vector_add_from_bounded(_, _, _, _, _, _)
vector_add_from_bounded(capacity, state, delta, multiple, i, acc) ==
    IF i > Len(state) THEN acc
    ELSE
      LET d == IF i <= Len(delta) THEN delta[i] ELSE 0
          prod == wrapping_mul(d, multiple)
      IN IF overflow_checks
            /\ (mul_overflows(d, multiple) \/ add_overflows(state[i], prod))
         THEN Panic
         ELSE
           LET o == wrapping_add(state[i], prod)
               pushed == [acc EXCEPT !.output = Append(@, o)]
           IN IF o < 0
              THEN vector_add_from_bounded(capacity, state, delta, multiple, i + 1,
                       [pushed EXCEPT !.underflow = TRUE, !.ok = FALSE])
              ELSE IF i > Len(capacity) THEN Panic
              ELSE IF capacity[i] - o < 0
              THEN vector_add_from_bounded(capacity, state, delta, multiple, i + 1,
                       [pushed EXCEPT !.overflow = TRUE, !.ok = FALSE])
              ELSE vector_add_from_bounded(capacity, state, delta, multiple, i + 1, pushed)

(* vector_add: the loop body for slot i, folded over 1 .. Len(state).        *)
RECURSIVE vector_add_from(_, _, _, _, _, _)
vector_add_from(capacity, state, delta, multiple, i, acc) ==
    IF i > Len(state) THEN acc
    ELSE
      LET d == IF i <= Len(delta) THEN delta[i] ELSE 0   \* delta.get(i).unwrap_or(&0)
          prod == wrapping_mul(d, multiple)
      IN IF overflow_checks
            /\ (mul_overflows(d, multiple) \/ add_overflows(state[i], prod))
         THEN Panic
         ELSE
           LET o == wrapping_add(state[i], prod)
               pushed == [acc EXCEPT !.output = Append(@, o)]
           IN IF o < 0
              THEN vector_add_from(capacity, state, delta, multiple, i + 1,
                       [pushed EXCEPT !.underflow = TRUE, !.ok = FALSE])
              ELSE IF i > Len(capacity) THEN Panic     \* capacity[i] out of bounds
              ELSE IF capacity[i] > 0 /\ capacity[i] - o < 0
              THEN vector_add_from(capacity, state, delta, multiple, i + 1,
                       [pushed EXCEPT !.overflow = TRUE, !.ok = FALSE])
              ELSE vector_add_from(capacity, state, delta, multiple, i + 1, pushed)

(* vector_add that never reports a negative slot. *)
vector_add_no_underflow(capacity, state, delta, multiple) ==
    LET r == vector_add_from(capacity, state, delta, multiple, 1,
                 [kind |-> "value", output |-> << >>, ok |-> TRUE,
                  overflow |-> FALSE, underflow |-> FALSE])
    IN IF r.kind = "panic" THEN r
       ELSE [r EXCEPT !.underflow = FALSE, !.ok = ~r.overflow]

vector_add(capacity, state, delta, multiple) ==
    vector_add_from(capacity, state, delta, multiple, 1,
        [kind |-> "value", output |-> << >>, ok |-> TRUE,
         overflow |-> FALSE, underflow |-> FALSE])

----------------------------------------------------------------------------
(* The compiled artifact.  A Guard is [delta, read]; a Transition is         *)
(* [label, role, delta, guards, allow_reentry] with guards a map from key    *)
(* to Guard; a StateMachine is [model_type, initial, capacity, places,       *)
(* transitions, roles].                                                      *)

ModelType == {"PetriNet", "Elementary", "Workflow"}

model_type_from_string(model_type) ==
    IF model_type = "elementary" THEN "Elementary"
    ELSE IF model_type = "workflow" THEN "Workflow"
    ELSE "PetriNet"

zeros(n) == [i \in 1 .. n |-> 0]                         \* vec![0; n]

GuardMap_new == << >>
(* guards_insert that keeps the entry a key already has. *)
guards_insert_keep(guards, key, guard) ==
    [k \in (DOMAIN guards) \cup {key} |->
        IF k \in DOMAIN guards THEN guards[k] ELSE guard]

guards_insert(guards, key, guard) ==
    [k \in (DOMAIN guards) \cup {key} |-> IF k = key THEN guard ELSE guards[k]]


(* arc_delta with the sign of the weight lost. *)
arc_delta_unsigned(vector_size, offset, weight) ==
    [zeros(vector_size) EXCEPT ![offset + 1] = weight]

(* The local delta of an arc: vec![0; vector_size] with 0 - weight at the    *)
(* resolved place's offset.                                                  *)
arc_delta(vector_size, offset, weight) ==
    [zeros(vector_size) EXCEPT ![offset + 1] = wrapping_neg(weight)]


(* fold_arc in which an inhibit arc that has consume set also consumes.      *)
fold_arc_inhibit_consumes(model, vector_size, acc, arc) ==
    LET source == arc.source
        target == arc.target
        weight == unwrap_or(arc.weight, 1)
        consume == unwrap_or(arc.consume, FALSE)
        produce == unwrap_or(arc.produce, FALSE)
        inhibit == unwrap_or(arc.inhibit, FALSE)
        read == unwrap_or(arc.read, FALSE)
        pname == IF read \/ produce THEN target ELSE source
        tname == IF read \/ produce THEN source ELSE target
    IN IF acc.kind = "panic" THEN Panic
       ELSE IF pname \notin DOMAIN model.places THEN Panic
       ELSE IF tname \notin DOMAIN acc.transitions THEN Panic
       ELSE
         LET p == model.places[pname]
             t == acc.transitions[tname]
         IN IF p.offset < 0 \/ p.offset >= vector_size THEN Panic
            ELSE IF overflow_checks /\ weight = I32_MIN THEN Panic
            ELSE
              LET delta == arc_delta(vector_size, p.offset, weight)
                  guarded == [acc.transitions EXCEPT ![tname].guards =
                                 guards_insert(@, target, [delta |-> delta, read |-> read])]
              IN IF inhibit /\ ~consume
                 THEN [kind |-> "value", transitions |-> guarded]
                 ELSE IF consume
                 THEN IF source \notin DOMAIN model.places THEN Panic
                      ELSE LET o == model.places[source].offset
                           IN IF o < 0 \/ o >= vector_size THEN Panic
                              ELSE [kind |-> "value",
                                    transitions |->
                                        [(IF inhibit THEN guarded ELSE acc.transitions)
                                            EXCEPT ![tname].delta[o + 1] =
                                                wrapping_neg(weight)]]
                 ELSE IF target \notin DOMAIN model.places THEN Panic
                      ELSE LET o == model.places[target].offset
                           IN IF o < 0 \/ o >= vector_size THEN Panic
                              ELSE [kind |-> "value",
                                    transitions |-> [acc.transitions EXCEPT
                                        ![tname].delta[o + 1] = weight]]


(* fold_arc that adds each arc's signed weight to the delta slot. *)
fold_arc_accumulating(model, vector_size, acc, arc) ==
    LET source == arc.source
        target == arc.target
        weight == unwrap_or(arc.weight, 1)
        consume == unwrap_or(arc.consume, FALSE)
        produce == unwrap_or(arc.produce, FALSE)
        inhibit == unwrap_or(arc.inhibit, FALSE)
        read == unwrap_or(arc.read, FALSE)
        pname == IF read \/ produce THEN target ELSE source
        tname == IF read \/ produce THEN source ELSE target
    IN IF acc.kind = "panic" THEN Panic
       ELSE IF pname \notin DOMAIN model.places THEN Panic
       ELSE IF tname \notin DOMAIN acc.transitions THEN Panic
       ELSE
         LET p == model.places[pname]
             t == acc.transitions[tname]
         IN IF p.offset < 0 \/ p.offset >= vector_size THEN Panic
            ELSE IF overflow_checks /\ weight = I32_MIN THEN Panic
            ELSE
              LET delta == arc_delta(vector_size, p.offset, weight)
              IN IF inhibit
                 THEN [kind |-> "value",
                       transitions |-> [acc.transitions EXCEPT ![tname].guards =
                           guards_insert(@, target, [delta |-> delta, read |-> read])]]
                 ELSE IF consume
                 THEN IF source \notin DOMAIN model.places THEN Panic
                      ELSE LET o == model.places[source].offset
                           IN IF o < 0 \/ o >= vector_size THEN Panic
                              ELSE [kind |-> "value",
                                    transitions |-> [acc.transitions EXCEPT
                                        ![tname].delta[o + 1] =
                                            wrapping_add(@, wrapping_neg(weight))]]
                 ELSE IF target \notin DOMAIN model.places THEN Panic
                      ELSE LET o == model.places[target].offset
                           IN IF o < 0 \/ o >= vector_size THEN Panic
                              ELSE [kind |-> "value",
                                    transitions |-> [acc.transitions EXCEPT
                                        ![tname].delta[o + 1] = wrapping_add(@, weight)]]

(* The per-arc closure of from_model: folds one arc into the transition map. *)
(* acc is [kind, transitions]; a failed unwrap or index makes it Panic.      *)
fold_arc(model, vector_size, acc, arc) ==
    LET source == arc.source
        target == arc.target
        weight == unwrap_or(arc.weight, 1)
        consume == unwrap_or(arc.consume, FALSE)
        produce == unwrap_or(arc.produce, FALSE)
        inhibit == unwrap_or(arc.inhibit, FALSE)
        read == unwrap_or(arc.read, FALSE)
        pname == IF read \/ produce THEN target ELSE source
        tname == IF read \/ produce THEN source ELSE target
    IN IF acc.kind = "panic" THEN Panic
       ELSE IF pname \notin DOMAIN model.places THEN Panic          \* .unwrap() on None
       ELSE IF tname \notin DOMAIN acc.transitions THEN Panic       \* .unwrap() on None
       ELSE
         LET p == model.places[pname]
             t == acc.transitions[tname]
         IN IF p.offset < 0 \/ p.offset >= vector_size THEN Panic   \* delta[p.offset]
            ELSE IF overflow_checks /\ weight = I32_MIN THEN Panic  \* 0 - weight
            ELSE
              LET delta == arc_delta(vector_size, p.offset, weight)
              IN IF inhibit
                 THEN [kind |-> "value",
                       transitions |-> [acc.transitions EXCEPT ![tname].guards =
                           guards_insert(@, target, [delta |-> delta, read |-> read])]]
                 ELSE IF consume
                 THEN IF source \notin DOMAIN model.places THEN Panic
                      ELSE LET o == model.places[source].offset
                           IN IF o < 0 \/ o >= vector_size THEN Panic
                              ELSE [kind |-> "value",
                                    transitions |-> [acc.transitions EXCEPT
                                        ![tname].delta[o + 1] = wrapping_neg(weight)]]
                 ELSE IF target \notin DOMAIN model.places THEN Panic
                      ELSE LET o == model.places[target].offset
                           IN IF o < 0 \/ o >= vector_size THEN Panic
                              ELSE [kind |-> "value",
                                    transitions |-> [acc.transitions EXCEPT
                                        ![tname].delta[o + 1] = weight]]

RECURSIVE fold_arcs(_, _, _, _)
fold_arcs(model, vector_size, acc, arcs) ==
    IF arcs = << >> THEN acc
    ELSE fold_arcs(model, vector_size, fold_arc(model, vector_size, acc, Head(arcs)),
                   Tail(arcs))

(* The place declared at offset o (offsets are assigned distinct by the      *)
(* net builder), and the three vectors the places loop fills.                *)
places_at(model, o) == {k \in DOMAIN model.places : model.places[k].offset = o}

initial_of(model_type, i) ==
    IF model_type = "PetriNet" THEN i ELSE IF i = 0 THEN 0 ELSE 1


(* capacity_of that forces the capacity for Workflow only. *)
capacity_of_declared(model_type, declared) ==
    IF model_type = "Workflow" THEN 1 ELSE unwrap_or(declared, 0)

capacity_of(model_type, declared) ==
    IF model_type = "PetriNet" THEN unwrap_or(declared, 0) ELSE 1

from_model(model) ==
    LET model_type == model_type_from_string(model.model_type)
        roles == [r \in {unwrap_or(model.transitions[k].role, "default") :
                          k \in DOMAIN model.transitions} |-> TRUE]
        vector_size == Cardinality(DOMAIN model.places)
        transitions0 ==
            [k \in DOMAIN model.transitions |->
                [label |-> k,
                 role |-> unwrap_or(model.transitions[k].role, "default"),
                 delta |-> zeros(vector_size),
                 guards |-> GuardMap_new,
                 allow_reentry |-> FALSE]]
        folded == fold_arcs(model, vector_size,
                            [kind |-> "value", transitions |-> transitions0],
                            model.arcs)
    IN IF folded.kind = "panic" THEN Panic
       ELSE IF \E k \in DOMAIN model.places :
                   \/ unwrap_or(model.places[k].initial, 0) < 0       \* assert!(i >= 0)
                   \/ model.places[k].offset < 0
                   \/ model.places[k].offset >= vector_size
       THEN Panic
       ELSE [kind |-> "value",
             model_type |-> model_type,
             initial |-> [i \in 1 .. vector_size |->
                 IF places_at(model, i - 1) = {} THEN 0
                 ELSE LET k == CHOOSE k \in places_at(model, i - 1) : TRUE
                      IN initial_of(model_type, unwrap_or(model.places[k].initial, 0))],
             capacity |-> [i \in 1 .. vector_size |->
                 IF places_at(model, i - 1) = {} THEN 0
                 ELSE LET k == CHOOSE k \in places_at(model, i - 1) : TRUE
                      IN capacity_of(model_type, model.places[k].capacity)],
             places |-> [i \in 1 .. vector_size |->
                 IF places_at(model, i - 1) = {} THEN ""
                 ELSE CHOOSE k \in places_at(model, i - 1) : TRUE],
             transitions |-> folded.transitions,
             roles |-> roles]

----------------------------------------------------------------------------
(* Firing.  A Transaction is [kind, ok, output, role, inhibited, overflow,   *)
(* underflow].                                                               *)

(* first_enumerated for a map whose enumeration order may change from one    *)
(* call to the next.                                                         *)
first_enumerated_unstable(transition) ==
    IF DOMAIN transition.guards = {} THEN {None}
    ELSE {Some(k) : k \in DOMAIN transition.guards}

(* The guard entries `for (_, guard) in &transition.guards` may yield first: *)
(* a HashMap enumerates an unmodified map in one order, fixed when the map   *)
(* was built (guard_first); None when the map is empty.                      *)
first_enumerated(transition) ==
    IF DOMAIN transition.guards = {} THEN {None}
    ELSE {Some(guard_first[transition.label])}


(* guard_fails that treats every guard as an inhibitor (read flag ignored).  *)
guard_fails_unread(self, state, transition, multiple, first) ==
    IF first = None THEN [kind |-> "value", value |-> FALSE]
    ELSE
      LET guard == transition.guards[first[1]]
          r == vector_add(self.capacity, state, guard.delta, multiple)
      IN IF r.kind = "panic" THEN Panic
         ELSE [kind |-> "value", value |-> r.ok]

(* guard_fails with the first enumerated key made explicit: [kind, value].   *)
guard_fails(self, state, transition, multiple, first) ==
    IF first = None THEN [kind |-> "value", value |-> FALSE]
    ELSE
      LET guard == transition.guards[first[1]]
          r == vector_add(self.capacity, state, guard.delta, multiple)
      IN IF r.kind = "panic" THEN Panic
         ELSE [kind |-> "value",
               value |-> IF guard.read THEN ~r.ok ELSE r.ok]

count_positive(v) == Cardinality({i \in DOMAIN v : v[i] > 0})


(* petri_net_fire that forgets the guard in ok. *)
petri_net_fire_unguarded(self, state, transition, multiple, first) ==
    LET r == vector_add(self.capacity, state, transition.delta, multiple)
        g == guard_fails(self, state, transition, multiple, first)
    IN IF r.kind = "panic" \/ g.kind = "panic" THEN Panic
       ELSE [kind |-> "transaction",
             output |-> r.output,
             ok |-> r.ok,
             role |-> transition.role,
             inhibited |-> g.value,
             overflow |-> r.overflow,
             underflow |-> r.underflow]


petri_net_fire(self, state, transition, multiple, first) ==
    LET r == vector_add(self.capacity, state, transition.delta, multiple)
        g == guard_fails(self, state, transition, multiple, first)
    IN IF r.kind = "panic" \/ g.kind = "panic" THEN Panic
       ELSE [kind |-> "transaction",
             output |-> r.output,
             ok |-> r.ok /\ ~g.value,
             role |-> transition.role,
             inhibited |-> g.value,
             overflow |-> r.overflow,
             underflow |-> r.underflow]


(* elementary_fire that does not count the active places. *)
elementary_fire_uncounted(self, state, transition, multiple, first) ==
    LET r == vector_add(self.capacity, state, transition.delta, multiple)
        g == guard_fails(self, state, transition, multiple, first)
    IN IF r.kind = "panic" \/ g.kind = "panic" THEN Panic
       ELSE [kind |-> "transaction",
             output |-> r.output,
             ok |-> r.ok /\ ~g.value,
             role |-> transition.role,
             inhibited |-> g.value,
             overflow |-> r.overflow,
             underflow |-> r.underflow]

elementary_fire(self, state, transition, multiple, first) ==
    LET r == vector_add(self.capacity, state, transition.delta, multiple)
        g == guard_fails(self, state, transition, multiple, first)
    IN IF r.kind = "panic" \/ g.kind = "panic" THEN Panic
       ELSE [kind |-> "transaction",
             output |-> r.output,
             ok |-> r.ok /\ count_positive(r.output) = 1 /\ ~g.value,
             role |-> transition.role,
             inhibited |-> g.value,
             overflow |-> r.overflow,
             underflow |-> r.underflow]


(* workflow_slot that sends every negative value to 0. *)
workflow_slot_negative_to_zero(x) ==
    IF x < 0 THEN 0
    ELSE IF x = 0 THEN 0
    ELSE 1

(* The match of workflow_fire on one slot. *)
workflow_slot(x) ==
    IF x = -1 THEN 0
    ELSE IF x = 0 THEN 0
    ELSE IF x = 1 THEN 1
    ELSE IF x = 2 THEN 1
    ELSE 1

workflow_output(output) == [i \in DOMAIN output |-> workflow_slot(output[i])]


(* workflow_fire without the reentry special case. *)
workflow_fire_no_reentry(self, state, transition, multiple, first) ==
    LET r == vector_add(self.capacity, state, transition.delta, multiple)
        g == guard_fails(self, state, transition, multiple, first)
    IN IF r.kind = "panic" \/ g.kind = "panic" THEN Panic
       ELSE [kind |-> "transaction",
             output |-> r.output,
             ok |-> r.ok /\ count_positive(workflow_output(r.output)) = 1 /\ ~g.value,
             role |-> transition.role,
             inhibited |-> g.value,
             overflow |-> r.overflow,
             underflow |-> r.underflow]


(* workflow_fire whose reentry path returns the raw output, not the clamped  *)
(* one.                                                                      *)
workflow_fire_raw_reentry(self, state, transition, multiple, first) ==
    LET r == vector_add(self.capacity, state, transition.delta, multiple)
        g == guard_fails(self, state, transition, multiple, first)
    IN IF r.kind = "panic" \/ g.kind = "panic" THEN Panic
       ELSE
         LET wf == workflow_output(r.output)
             output_state_count == count_positive(wf)
         IN IF ~g.value /\ r.overflow /\ output_state_count = 1
               /\ transition.allow_reentry
            THEN [kind |-> "transaction",
                  output |-> r.output,
                  ok |-> TRUE,
                  role |-> transition.role,
                  inhibited |-> g.value,
                  overflow |-> FALSE,
                  underflow |-> r.underflow]
            ELSE [kind |-> "transaction",
                  output |-> r.output,
                  ok |-> r.ok /\ output_state_count = 1 /\ ~g.value,
                  role |-> transition.role,
                  inhibited |-> g.value,
                  overflow |-> r.overflow,
                  underflow |-> r.underflow]

workflow_fire(self, state, transition, multiple, first) ==
    LET r == vector_add(self.capacity, state, transition.delta, multiple)
        g == guard_fails(self, state, transition, multiple, first)
    IN IF r.kind = "panic" \/ g.kind = "panic" THEN Panic
       ELSE
         LET wf == workflow_output(r.output)
             output_state_count == count_positive(wf)
         IN IF ~g.value /\ r.overflow /\ output_state_count = 1
               /\ transition.allow_reentry
            THEN [kind |-> "transaction",
                  output |-> wf,
                  ok |-> TRUE,
                  role |-> transition.role,
                  inhibited |-> g.value,
                  overflow |-> FALSE,
                  underflow |-> r.underflow]
            ELSE [kind |-> "transaction",
                  output |-> r.output,
                  ok |-> r.ok /\ output_state_count = 1 /\ ~g.value,
                  role |-> transition.role,
                  inhibited |-> g.value,
                  overflow |-> r.overflow,
                  underflow |-> r.underflow]

(* The firing policy transform dispatches to for a model type. *)
policy_of(model_type) ==
    IF model_type = "PetriNet" THEN "petri_net_fire"
    ELSE IF model_type = "Elementary" THEN "elementary_fire"
    ELSE "workflow_fire"

fire(policy, self, state, transition, multiple, first) ==
    IF policy = "petri_net_fire"
    THEN petri_net_fire(self, state, transition, multiple, first)
    ELSE IF policy = "elementary_fire"
    THEN elementary_fire(self, state, transition, multiple, first)
    ELSE workflow_fire(self, state, transition, multiple, first)


(* transform that reports an unknown label as a failed Transaction. *)
transform_lenient(self, state, action, multiple, first) ==
    IF action \notin DOMAIN self.transitions
    THEN [kind |-> "transaction", output |-> state, ok |-> FALSE, role |-> "",
          inhibited |-> FALSE, overflow |-> FALSE, underflow |-> FALSE]
    ELSE fire(policy_of(self.model_type), self, state,
              self.transitions[action], multiple, first)

(* Vasm::transform: the lookup panics on an unknown label. *)
transform(self, state, action, multiple, first) ==
    IF action \notin DOMAIN self.transitions THEN Panic
    ELSE fire(policy_of(self.model_type), self, state,
              self.transitions[action], multiple, first)

initial_vector(self) == self.initial
empty_vector(self) == zeros(Len(self.places))


(* A caller firing the same action `times` times in sequence with multiplier *)
(* 1, each firing starting from the output of the one before, and stopping   *)
(* at the first one that is not ok: [ok, output].                            *)
RECURSIVE fire_in_sequence(_, _, _, _, _)
fire_in_sequence(self, state, action, times, first) ==
    IF times = 0 THEN [ok |-> TRUE, output |-> state]
    ELSE LET r == transform(self, state, action, 1, first)
         IN IF r.kind # "transaction" THEN [ok |-> FALSE, output |-> state]
            ELSE IF ~r.ok THEN [ok |-> FALSE, output |-> state]
            ELSE fire_in_sequence(self, r.output, action, times - 1, first)

(* The vector_add calls one transform makes, in order, with their results:   *)
(* the transition's delta, then the first enumerated guard's delta.          *)
vector_add_call(capacity, state, delta, multiple) ==
    [capacity |-> capacity, state |-> state, delta |-> delta,
     multiple |-> multiple,
     result |-> vector_add(capacity, state, delta, multiple)]

vector_add_calls(self, state, action, multiple, first) ==
    IF action \notin DOMAIN self.transitions THEN << >>
    ELSE
      LET t == self.transitions[action]
          c1 == vector_add_call(self.capacity, state, t.delta, multiple)
      IN IF first = None THEN <<c1>>
         ELSE <<c1, vector_add_call(self.capacity, state,
                                    t.guards[first[1]].delta, multiple)>>

----------------------------------------------------------------------------
(* The nets explored: what the net builder hands to from_model.  Places get  *)
(* the offsets 0, 1, ... in declaration order; every net declares the        *)
(* transitions t (no role) and u (role "admin"); arcs carry the attributes   *)
(* as populated by the builder.                                              *)

Weights == 1 .. MaxWeight
Tokens == -1 .. MaxTokens
Multiples == -1 .. MaxMultiple

arc(source, target, weight, consume, produce, inhibit, read) ==
    [source |-> source, target |-> target, weight |-> weight,
     consume |-> consume, produce |-> produce, inhibit |-> inhibit, read |-> read]

consume_arc(p, t, w) == arc(p, t, Some(w), Some(TRUE), Some(FALSE), Some(FALSE), Some(FALSE))
produce_arc(t, p, w) == arc(t, p, Some(w), Some(FALSE), Some(TRUE), Some(FALSE), Some(FALSE))
inhibit_arc(p, t, w) == arc(p, t, Some(w), Some(TRUE), None, Some(TRUE), None)
read_arc(t, p, w) == arc(t, p, Some(w), None, Some(FALSE), Some(TRUE), Some(TRUE))
unit_arc(t, p) == arc(t, p, None, None, Some(TRUE), None, None)
inhibit_produce_arc(t, p, w) == arc(t, p, Some(w), None, Some(TRUE), Some(TRUE), None)

TransitionDecls == [k \in {"t", "u"} |->
                       [role |-> IF k = "t" THEN None ELSE Some("admin")]]

PlaceDecls ==
    {[initial |-> None, capacity |-> None],
     [initial |-> Some(1), capacity |-> Some(1)],
     [initial |-> Some(MaxTokens), capacity |-> Some(MaxTokens)]}

one_place(d) == [k \in {"p"} |-> [offset |-> 0, initial |-> d.initial, capacity |-> d.capacity]]
two_places(d, e) ==
    [k \in {"p", "q"} |->
        IF k = "p" THEN [offset |-> 0, initial |-> d.initial, capacity |-> d.capacity]
        ELSE [offset |-> 1, initial |-> e.initial, capacity |-> e.capacity]]

ArcLists1 ==
    {<< >>}
    \cup {<<inhibit_arc("p", "t", w)>> : w \in Weights}
    \cup {<<read_arc("t", "p", w)>> : w \in Weights}
    \cup {<<produce_arc("t", "p", w)>> : w \in Weights}
    \cup {<<consume_arc("p", "t", w)>> : w \in Weights}
    \cup {<<read_arc("t", "p", 1), consume_arc("p", "t", 1)>>}

ArcLists2 ==
    {<< >>, <<unit_arc("t", "q")>>}
    \cup {<<consume_arc("p", "t", w), produce_arc("t", "q", 1)>> : w \in Weights}
    \cup {<<produce_arc("t", "q", w)>> : w \in Weights}
    \cup {<<inhibit_arc("p", "t", w), produce_arc("t", "q", 1)>> : w \in Weights}
    \cup {<<read_arc("t", "p", w), produce_arc("t", "q", 1)>> : w \in Weights}
    \cup {<<read_arc("t", "p", 1), read_arc("t", "q", 1), produce_arc("t", "q", 1)>>,
          <<inhibit_arc("p", "t", MaxWeight), read_arc("t", "q", 1)>>,
          <<inhibit_arc("p", "t", 1), inhibit_arc("q", "t", 1)>>}

ModelTypeStrings == {"petriNet", "elementary", "workflow"}

petri_net(model_type, places, arcs) ==
    [model_type |-> model_type, places |-> places,
     transitions |-> TransitionDecls, arcs |-> arcs]

(* The net with places idle (p, initially 1) and busy (q, initially 0) of    *)
(* capacity 1 each and the transition t taking the token from p to q.        *)
idle_busy(m) ==
    petri_net(m,
              two_places([initial |-> Some(1), capacity |-> Some(1)],
                         [initial |-> None, capacity |-> Some(1)]),
              <<consume_arc("p", "t", 1), produce_arc("t", "q", 1)>>)

(* A place declared with more initial tokens than its capacity. *)
over_capacity(m, arcs) ==
    petri_net(m, one_place([initial |-> Some(MaxTokens), capacity |-> Some(1)]), arcs)

Nets ==
    {petri_net(m, << >>, << >>) : m \in ModelTypeStrings}
    \cup {idle_busy(m) : m \in ModelTypeStrings}
    \cup {over_capacity(m, a) :
            m \in ModelTypeStrings,
            a \in {<<consume_arc("p", "t", 1)>>, <<produce_arc("t", "p", 1)>>}}
    \cup {petri_net(m, one_place(d), a) :
            m \in ModelTypeStrings, d \in PlaceDecls, a \in ArcLists1}
    \cup {petri_net(m, two_places(d, d), a) :
            m \in ModelTypeStrings, d \in PlaceDecls, a \in ArcLists2}

----------------------------------------------------------------------------
(* State machine of one construction followed by the caller's firings.       *)

NoMachine == [kind |-> "none"]

(* The origin of the caller's marking ("initial": initial_vector() followed  *)
(* by applied outputs only; "chosen": a marking from elsewhere) and the      *)
(* call and Transaction last applied to it.                                  *)
NoTrail == [origin |-> "none", last |-> NoCall]

Init ==
    /\ net \in Nets
    /\ overflow_checks \in BOOLEAN
    /\ pc = "declared"
    /\ sm = NoMachine
    /\ guard_first = << >>
    /\ marking = << >>
    /\ call = NoCall
    /\ tx = NoCall
    /\ tx2 = NoCall
    /\ trail = NoTrail

(* The enumeration orders the guard maps of a fresh machine can have: per    *)
(* transition, which key comes first ("" when it has no guard).              *)
guard_orders(machine) ==
    {f \in [DOMAIN machine.transitions ->
               UNION {DOMAIN machine.transitions[l].guards :
                        l \in DOMAIN machine.transitions} \cup {""}] :
        \A l \in DOMAIN machine.transitions :
            IF DOMAIN machine.transitions[l].guards = {} THEN f[l] = ""
            ELSE f[l] \in DOMAIN machine.transitions[l].guards}

(* The machine read back from its serialized form with allow_reentry set on  *)
(* the transitions in R (Transition derives Deserialize).                    *)
with_reentry(machine, R) ==
    [machine EXCEPT !.transitions =
        [l \in DOMAIN machine.transitions |->
            [machine.transitions[l] EXCEPT !.allow_reentry = (l \in R)]]]

ReentrySets == {{"t"}}

Built(machine) ==
    IF machine.kind = "panic"
    THEN /\ pc' = "failed"
         /\ UNCHANGED <<sm, guard_first, marking, trail>>
    ELSE /\ pc' = "ready"
         /\ sm' = machine
         /\ guard_first' \in guard_orders(machine)
         /\ marking' = initial_vector(machine)
         /\ trail' = [origin |-> "initial", last |-> NoCall]

(* StateMachine::from_model. *)
FromModel ==
    /\ pc = "declared"
    /\ Built(from_model(net))
    /\ UNCHANGED <<net, overflow_checks, call, tx, tx2>>

(* A machine compiled elsewhere and deserialized, its allow_reentry flags    *)
(* as the wire form gives them.                                              *)
FromWire(R) ==
    /\ pc = "declared"
    /\ LET m == from_model(net)
       IN Built(IF m.kind = "panic" THEN m ELSE with_reentry(m, R))
    /\ UNCHANGED <<net, overflow_checks, call, tx, tx2>>

(* The markings a caller passes: one slot per place, and a few of another    *)
(* length.                                                                   *)
Markings(n) ==
    [1 .. n -> Tokens]
    \cup {Append(zeros(n), x) : x \in {-1, 0}}
    \cup (IF n > 0 THEN {zeros(n - 1)} ELSE {})

ChooseMarking ==
    /\ pc = "ready"
    /\ call = NoCall
    /\ marking' \in Markings(Len(sm.capacity))
    /\ call' = NoCall
    /\ tx' = NoCall
    /\ tx2' = NoCall
    /\ trail' = [origin |-> "chosen", last |-> NoCall]
    /\ UNCHANGED <<net, pc, sm, guard_first, overflow_checks>>

Labels == {"t", "u", "x"}


(* Transform that writes the output into the caller's marking. *)
TransformInPlace(action, multiple) ==
    /\ pc = "ready"
    /\ tx = NoCall
    /\ \E first \in (IF action \in DOMAIN sm.transitions
                     THEN first_enumerated(sm.transitions[action]) ELSE {None}) :
          /\ tx' = transform(sm, marking, action, multiple, first)
          /\ marking' = IF tx'.kind = "transaction" THEN tx'.output ELSE marking
          /\ call' = [kind |-> "call", state |-> marking, action |-> action,
                      multiple |-> multiple,
                      policy |-> IF action \in DOMAIN sm.transitions
                                 THEN policy_of(sm.model_type) ELSE "none",
                      adds |-> vector_add_calls(sm, marking, action, multiple, first)]
    /\ UNCHANGED <<net, pc, sm, guard_first, overflow_checks, tx2, trail>>

(* sm.transform(&marking, action, multiple). *)
Transform(action, multiple) ==
    /\ pc = "ready"
    /\ tx = NoCall
    /\ \E first \in (IF action \in DOMAIN sm.transitions
                     THEN first_enumerated(sm.transitions[action]) ELSE {None}) :
          /\ tx' = transform(sm, marking, action, multiple, first)
          /\ call' = [kind |-> "call", state |-> marking, action |-> action,
                      multiple |-> multiple,
                      policy |-> IF action \in DOMAIN sm.transitions
                                 THEN policy_of(sm.model_type) ELSE "none",
                      adds |-> vector_add_calls(sm, marking, action, multiple, first)]
    /\ UNCHANGED <<net, pc, sm, guard_first, overflow_checks, marking, tx2, trail>>

(* The same call evaluated a second time. *)
TransformAgain ==
    /\ pc = "ready"
    /\ call # NoCall
    /\ tx2 = NoCall
    /\ \E first \in (IF call.action \in DOMAIN sm.transitions
                     THEN first_enumerated(sm.transitions[call.action]) ELSE {None}) :
          tx2' = transform(sm, call.state, call.action, call.multiple, first)
    /\ UNCHANGED <<net, pc, sm, guard_first, overflow_checks, marking, call, tx, trail>>


(* Apply that takes the output of any Transaction, refused ones included. *)
ApplyAny ==
    /\ pc = "ready"
    /\ tx.kind = "transaction"
    /\ \A i \in DOMAIN tx.output : tx.output[i] <= MaxTokens
    /\ marking' = tx.output
    /\ call' = NoCall
    /\ tx' = NoCall
    /\ tx2' = NoCall
    /\ trail' = [origin |-> trail.origin,
                 last |-> [kind |-> "applied", call |-> call, tx |-> tx]]
    /\ UNCHANGED <<net, pc, sm, guard_first, overflow_checks>>

(* The caller replaces its marking with the output of an ok Transaction. *)
Apply ==
    /\ pc = "ready"
    /\ tx.kind = "transaction"
    /\ tx.ok
    /\ \A i \in DOMAIN tx.output : tx.output[i] <= MaxTokens
    /\ marking' = tx.output
    /\ call' = NoCall
    /\ tx' = NoCall
    /\ tx2' = NoCall
    /\ trail' = [origin |-> trail.origin,
                 last |-> [kind |-> "applied", call |-> call, tx |-> tx]]
    /\ UNCHANGED <<net, pc, sm, guard_first, overflow_checks>>

Next ==
    \/ FromModel
    \/ \E R \in ReentrySets : FromWire(R)
    \/ ChooseMarking
    \/ \E a \in Labels, m \in Multiples : Transform(a, m)
    \/ TransformAgain
    \/ Apply


(* Construction alone, over a wider family of declarations: every declared   *)
(* initial count in Tokens (a negative one included) or absent, every        *)
(* declared capacity in 0 .. MaxTokens or absent, and a model type string    *)
(* that is none of the three known ones.                                     *)
AllPlaceDecls ==
    {[initial |-> i, capacity |-> c] :
        i \in {None} \cup {Some(v) : v \in Tokens},
        c \in {None} \cup {Some(v) : v \in 0 .. MaxTokens}}

AllModelTypeStrings == ModelTypeStrings \cup {""}

(* Arc lists of up to two arcs over every kind of arc between the places p,  *)
(* q and the transitions t, u: consume, produce (with and without weight),   *)
(* inhibitor (consume set as well), inhibitor with produce set, read.        *)
ArcPool ==
    {unit_arc("t", "q"), unit_arc("u", "p")}
    \cup UNION {{consume_arc("p", "t", w), consume_arc("q", "t", w),
                 produce_arc("t", "p", w), produce_arc("t", "q", w),
                 inhibit_arc("p", "t", w), inhibit_arc("q", "t", w),
                 inhibit_produce_arc("t", "q", w),
                 read_arc("t", "p", w), read_arc("u", "q", w)} : w \in Weights}

ArcListsCompile ==
    {<<a>> : a \in ArcPool} \cup {<<a, b>> : a \in ArcPool, b \in ArcPool}

CompileNets ==
    {petri_net(m, << >>, << >>) : m \in AllModelTypeStrings}
    \cup {petri_net(m, two_places(d, d), a) :
            m \in ModelTypeStrings, d \in PlaceDecls, a \in ArcListsCompile}
    \cup {petri_net(m, one_place(d), a) :
            m \in AllModelTypeStrings, d \in AllPlaceDecls, a \in ArcLists1}
    \cup {petri_net(m, two_places(d, e), a) :
            m \in AllModelTypeStrings, d \in AllPlaceDecls, e \in AllPlaceDecls,
            a \in {<< >>, <<consume_arc("p", "t", 1), produce_arc("t", "q", 1)>>}}

InitCompile ==
    /\ net \in CompileNets
    /\ overflow_checks \in BOOLEAN
    /\ pc = "declared"
    /\ sm = NoMachine
    /\ guard_first = << >>
    /\ marking = << >>
    /\ call = NoCall
    /\ tx = NoCall
    /\ tx2 = NoCall
    /\ trail = NoTrail

NextCompile ==
    \/ FromModel
    \/ \E R \in ReentrySets : FromWire(R)

SpecCompile == InitCompile /\ [][NextCompile]_vars


(* Firing at the edges of the input domain: slots at the top of the i32      *)
(* range, multipliers at both ends of it, and a state one slot longer than   *)
(* the capacity vector.                                                      *)
EdgeTokens == {0, 1, I32_MAX}
EdgeMultiples == {1, 2, I32_MAX, I32_MIN}

EdgeMarkings(n) ==
    [1 .. n -> EdgeTokens] \cup {Append(zeros(n), 0)}

ChooseEdgeMarking ==
    /\ pc = "ready"
    /\ call = NoCall
    /\ marking' \in EdgeMarkings(Len(sm.capacity))
    /\ trail' = [origin |-> "chosen", last |-> NoCall]
    /\ UNCHANGED <<net, pc, sm, guard_first, overflow_checks, call, tx, tx2>>

(* The nets fired at the edges: those of Nets and an unbounded place fed by  *)
(* an arc of the largest weight.                                             *)
EdgeNets ==
    Nets \cup {petri_net("petriNet",
                         one_place([initial |-> None, capacity |-> None]),
                         <<produce_arc("t", "p", I32_MAX)>>)}

InitEdge ==
    /\ net \in EdgeNets
    /\ overflow_checks \in BOOLEAN
    /\ pc = "declared"
    /\ sm = NoMachine
    /\ guard_first = << >>
    /\ marking = << >>
    /\ call = NoCall
    /\ tx = NoCall
    /\ tx2 = NoCall
    /\ trail = NoTrail

NextEdge ==
    \/ FromModel
    \/ \E R \in ReentrySets : FromWire(R)
    \/ ChooseEdgeMarking
    \/ \E a \in Labels, m \in EdgeMultiples : Transform(a, m)

SpecEdge == InitEdge /\ [][NextEdge]_vars

Spec == Init /\ [][Next]_vars

----------------------------------------------------------------------------
(* Shorthands for the last transform call. *)

Called == pc = "ready" /\ call.kind = "call"
KnownLabel == Called /\ call.action \in DOMAIN sm.transitions
Returned == KnownLabel /\ tx.kind = "transaction"
WellFormedCall == KnownLabel /\ Len(call.state) = Len(sm.capacity)
delta_at(delta, i) == IF i <= Len(delta) THEN delta[i] ELSE 0

----------------------------------------------------------------------------
(* C1: for a PetriNet machine, transform on a known label returns a          *)
(* Transaction (whenever the marking has one slot per place) whose output is *)
(* state[i] + delta[i] * multiple in every slot, unclamped, whose ok is      *)
(* (arithmetic ok and not inhibited), whose role is the transition's role    *)
(* and whose overflow and underflow are the flags of the vector_add call on  *)
(* the transition's delta.                                                   *)
C1_PetriNetFire ==
    (KnownLabel /\ sm.model_type = "PetriNet") =>
        LET t == sm.transitions[call.action]
            a == call.adds[1]
        IN /\ WellFormedCall => tx.kind = "transaction"
           /\ tx.kind = "transaction" =>
                /\ a.delta = t.delta /\ a.state = call.state
                /\ a.multiple = call.multiple /\ a.capacity = sm.capacity
                /\ DOMAIN tx.output = DOMAIN call.state
                /\ \A i \in DOMAIN call.state :
                      tx.output[i] = call.state[i] + delta_at(t.delta, i) * call.multiple
                /\ tx.ok = (a.result.ok /\ ~tx.inhibited)
                /\ tx.role = t.role
                /\ tx.overflow = a.result.overflow
                /\ tx.underflow = a.result.underflow

(* C1 witness: a PetriNet firing with multiplier 2 that is refused only      *)
(* because its guard inhibits it, the arithmetic being ok.                   *)
C1_Witness ==
    /\ Returned /\ sm.model_type = "PetriNet"
    /\ call.multiple = 2
    /\ tx.output # call.state
    /\ tx.inhibited /\ ~tx.ok /\ ~tx.overflow /\ ~tx.underflow

----------------------------------------------------------------------------
(* C2: every vector_add call that returns gives an output of the length of   *)
(* state with output[i] = state[i] + delta[i] * multiple (0 for a slot the   *)
(* delta lacks), underflow iff some output[i] < 0, overflow iff some slot    *)
(* has capacity[i] > 0 and output[i] > capacity[i], and ok iff neither.      *)
C2_VectorAdd ==
    Called =>
        \A n \in DOMAIN call.adds :
            LET a == call.adds[n]
                r == a.result
            IN r.kind = "value" =>
                 /\ Len(r.output) = Len(a.state)
                 /\ \A i \in 1 .. Len(a.state) :
                       r.output[i] = a.state[i] + delta_at(a.delta, i) * a.multiple
                 /\ r.underflow = (\E i \in 1 .. Len(a.state) : r.output[i] < 0)
                 /\ r.overflow = (\E i \in 1 .. Len(a.state) :
                                     /\ i <= Len(a.capacity)
                                     /\ a.capacity[i] > 0
                                     /\ r.output[i] > a.capacity[i])
                 /\ r.ok = (~r.underflow /\ ~r.overflow)

(* C2 witness: one call in which one slot underflows and another overflows,  *)
(* on a state longer than the delta.                                         *)
C2_Witness ==
    /\ Called
    /\ \E n \in DOMAIN call.adds :
          LET a == call.adds[n]
          IN /\ a.result.kind = "value"
             /\ a.result.underflow /\ a.result.overflow
             /\ Len(a.state) > Len(a.delta)

----------------------------------------------------------------------------
(* C3: an Elementary transform reports ok only when exactly one slot of the  *)
(* output is strictly positive.                                              *)
C3_ElementarySingleActive ==
    (Returned /\ sm.model_type = "Elementary" /\ tx.ok) =>
        Cardinality({i \in DOMAIN tx.output : tx.output[i] > 0}) = 1

(* C3 witness: an Elementary firing refused although the arithmetic raised   *)
(* no flag and no guard inhibits, because it leaves two places positive.     *)
C3_Witness ==
    /\ Returned /\ sm.model_type = "Elementary"
    /\ call.action = "t" /\ tx.output # call.state
    /\ ~tx.ok /\ ~tx.overflow /\ ~tx.underflow /\ ~tx.inhibited
    /\ Cardinality({i \in DOMAIN tx.output : tx.output[i] > 0}) = 2

----------------------------------------------------------------------------
(* C4: Workflow reentry.  The firing goes into a single target place when    *)
(* exactly one slot j has delta[j] * multiple > 0, and that place is already *)
(* marked when state[j] = 1.                                                 *)

reentry_targets == {i \in DOMAIN call.state :
                       delta_at(sm.transitions[call.action].delta, i) * call.multiple > 0}
ReentryCase ==
    /\ Returned /\ sm.model_type = "Workflow"
    /\ \A i \in DOMAIN sm.capacity : sm.capacity[i] = 1
    /\ ~tx.inhibited
    /\ Cardinality(reentry_targets) = 1
    /\ \A j \in reentry_targets : call.state[j] = 1

(* The raw output clamped to {0, 1}: -1 and 0 give 0, every other value 1.   *)
clamped_raw == [i \in DOMAIN call.state |->
                   IF call.adds[1].result.output[i] \in {-1, 0} THEN 0 ELSE 1]

reentry_accepted ==
    /\ tx.ok /\ ~tx.overflow
    /\ tx.output = clamped_raw
    /\ \A j \in reentry_targets : tx.output[j] = 1
    /\ \A i \in DOMAIN tx.output : tx.output[i] \in {0, 1}

(* C4 as stated: with allow_reentry every such firing is accepted with the   *)
(* clamped output, without it every such firing reports overflow and ok =    *)
(* false.  Taken here in its narrowest reading: multiplier 1, a marking of   *)
(* 0s and 1s with one slot per place, and unit weights.                      *)
C4_Original ==
    (/\ ReentryCase
     /\ call.multiple = 1
     /\ Len(call.state) = Len(sm.capacity)
     /\ \A i \in DOMAIN call.state :
           /\ call.state[i] \in {0, 1}
           /\ sm.transitions[call.action].delta[i] \in {-1, 0, 1})
    => IF sm.transitions[call.action].allow_reentry
       THEN reentry_accepted
       ELSE tx.overflow /\ ~tx.ok

(* C4 amended: the firing is accepted only when, besides, the clamped vector *)
(* has exactly one positive slot; otherwise, and without allow_reentry, it   *)
(* reports overflow = true and ok = false.                                   *)
C4_WorkflowReentry ==
    ReentryCase =>
        IF /\ sm.transitions[call.action].allow_reentry
           /\ Cardinality({i \in DOMAIN clamped_raw : clamped_raw[i] > 0}) = 1
        THEN reentry_accepted
        ELSE tx.overflow /\ ~tx.ok

(* C4 witness: a reentry accepted although the raw arithmetic overflowed the *)
(* target and underflowed the source.                                        *)
C4_Witness ==
    /\ ReentryCase
    /\ sm.transitions[call.action].allow_reentry
    /\ call.multiple = 1
    /\ call.adds[1].result.overflow
    /\ call.adds[1].result.underflow
    /\ tx.ok /\ ~tx.overflow /\ tx.output = call.state

----------------------------------------------------------------------------
(* A marking within bounds: one slot per place, no slot negative, no slot    *)
(* above a positive capacity.                                                *)
valid_marking(state) ==
    /\ Len(state) = Len(sm.capacity)
    /\ \A i \in DOMAIN state :
          /\ state[i] >= 0
          /\ sm.capacity[i] > 0 => state[i] <= sm.capacity[i]

flag(opt) == unwrap_or(opt, FALSE)

----------------------------------------------------------------------------
(* C5: inhibitor correctness.  The net has the single place p and the single *)
(* arc p -> t, an inhibitor of weight 2; the call fires t on a marking of    *)
(* one slot.                                                                 *)
InhibitorCase ==
    /\ Returned
    /\ DOMAIN net.places = {"p"}
    /\ Len(net.arcs) = 1
    /\ net.arcs[1].source = "p" /\ net.arcs[1].target = "t"
    /\ flag(net.arcs[1].inhibit)
    /\ ~flag(net.arcs[1].read) /\ ~flag(net.arcs[1].produce)
    /\ unwrap_or(net.arcs[1].weight, 1) = 2
    /\ call.action = "t"
    /\ Len(call.state) = 1

(* C5 as stated: on any marking and with any multiplier, inhibited is true   *)
(* when marking[p] >= 2 and false when marking[p] < 2.  Taken here over the  *)
(* markings within bounds and the multipliers >= 1 only.                     *)
C5_Original ==
    (InhibitorCase /\ call.multiple >= 1 /\ valid_marking(call.state))
        => (tx.inhibited = (call.state[1] >= 2))

(* C5 amended: with multiplier 1 and a marking within bounds, inhibited is   *)
(* true when marking[p] >= 2 and false when marking[p] < 2; the threshold    *)
(* scales with the multiplier m: inhibited is true exactly when              *)
(* marking[p] - 2 * m is >= 0 and not above a positive capacity.             *)
C5_Inhibitor ==
    InhibitorCase =>
        /\ (call.multiple = 1 /\ valid_marking(call.state))
              => (tx.inhibited = (call.state[1] >= 2))
        /\ LET o == call.state[1] - 2 * call.multiple
           IN tx.inhibited = (o >= 0 /\ (sm.capacity[1] > 0 => o <= sm.capacity[1]))

(* C5 witness: the inhibitor blocks a firing with multiplier 1 at            *)
(* marking[p] = 2.                                                           *)
C5_Witness ==
    /\ InhibitorCase
    /\ call.multiple = 1 /\ valid_marking(call.state)
    /\ call.state[1] = 2
    /\ tx.inhibited /\ ~tx.ok

----------------------------------------------------------------------------
(* C6: read-arc correctness.  A read arc is an arc t -> place compiled into  *)
(* a read guard (inhibit and read set); here it has weight 1 and is the only *)
(* guard of t, and t is fired on a marking within bounds.                    *)
is_read_arc(a) == flag(a.inhibit) /\ flag(a.read)

read_places ==
    {net.places[net.arcs[n].target].offset + 1 :
        n \in {m \in DOMAIN net.arcs :
                  /\ is_read_arc(net.arcs[m])
                  /\ net.arcs[m].source = "t"
                  /\ unwrap_or(net.arcs[m].weight, 1) = 1}}

ReadArcCase ==
    /\ Returned
    /\ call.action = "t"
    /\ Cardinality(read_places) = 1
    /\ Cardinality(DOMAIN sm.transitions["t"].guards) = 1
    /\ valid_marking(call.state)

(* The delta of t compiled from the net with its read arcs left out. *)
delta_without_read_arcs ==
    from_model([net EXCEPT !.arcs =
                   SelectSeq(net.arcs, LAMBDA a : ~is_read_arc(a))]).transitions["t"].delta

(* C6 as stated: firing the transition (any multiplier >= 1) is inhibited    *)
(* when marking[p] < 1 and not inhibited when marking[p] >= 1.               *)
C6_Original ==
    (ReadArcCase /\ call.multiple >= 1) =>
        \A p \in read_places : tx.inhibited = (call.state[p] < 1)

(* C6 amended: with multiplier 1, inhibited is true when marking[p] < 1 and  *)
(* false when marking[p] >= 1 (with multiplier m the threshold is m: the     *)
(* firing is permitted exactly when marking[p] - m is >= 0 and not above a   *)
(* positive capacity).  The read arc adds nothing to the delta of t, so      *)
(* output[p] = marking[p] + (delta of the other arcs at p) * multiplier.     *)
C6_ReadArc ==
    ReadArcCase =>
        \A p \in read_places :
            /\ call.multiple = 1 => (tx.inhibited = (call.state[p] < 1))
            /\ LET o == call.state[p] - call.multiple
               IN tx.inhibited = ~(o >= 0 /\ (sm.capacity[p] > 0 => o <= sm.capacity[p]))
            /\ sm.transitions["t"].delta = delta_without_read_arcs
            /\ tx.output[p] = call.state[p] + delta_without_read_arcs[p] * call.multiple

(* C6 witness: a permitted firing through a read arc on p of a transition    *)
(* that also consumes from p: only the consume arc changes p.                *)
C6_Witness ==
    /\ ReadArcCase
    /\ call.multiple = 1
    /\ \E p \in read_places :
          /\ call.state[p] >= 1
          /\ ~tx.inhibited /\ tx.ok
          /\ tx.output[p] = call.state[p] - 1

----------------------------------------------------------------------------
----------------------------------------------------------------------------
(* C8: transform on a label that is no key of the transitions aborts, for    *)
(* every model type, and returns no Transaction; on a known label (and a     *)
(* marking of one slot per place) it returns the Transaction of the firing   *)
(* policy matching the machine's model type.                                 *)
C8_Dispatch ==
    Called =>
        /\ call.action \notin DOMAIN sm.transitions =>
              (tx = Panic /\ call.policy = "none")
        /\ call.action \in DOMAIN sm.transitions =>
              LET t == sm.transitions[call.action]
                  f == CHOOSE f \in first_enumerated(t) : TRUE
              IN /\ WellFormedCall => tx.kind = "transaction"
                 /\ sm.model_type \in ModelType
                 /\ sm.model_type = "PetriNet" =>
                       /\ call.policy = "petri_net_fire"
                       /\ tx = petri_net_fire(sm, call.state, t, call.multiple, f)
                 /\ sm.model_type = "Elementary" =>
                       /\ call.policy = "elementary_fire"
                       /\ tx = elementary_fire(sm, call.state, t, call.multiple, f)
                 /\ sm.model_type = "Workflow" =>
                       /\ call.policy = "workflow_fire"
                       /\ tx = workflow_fire(sm, call.state, t, call.multiple, f)

(* C8 witness: a Workflow machine asked for an unknown label has aborted.    *)
C8_Witness ==
    /\ Called /\ sm.model_type = "Workflow"
    /\ call.action \notin DOMAIN sm.transitions
    /\ tx = Panic

----------------------------------------------------------------------------
(* C9: no step taken once the machine is built changes the StateMachine      *)
(* (initial_vector(), capacity, places, transitions, roles, model_type and   *)
(* the order of its maps); a transform call, first or repeated, leaves the   *)
(* marking it was given unchanged; and a machine compiled from a model with  *)
(* no places has an initial vector of length 0.                              *)
C9_Frame ==
    [][ /\ pc = "ready" =>
             /\ sm' = sm
             /\ guard_first' = guard_first
             /\ initial_vector(sm') = initial_vector(sm)
             /\ (call'.kind = "call" /\ call' # call) =>
                    (marking' = marking /\ call'.state = marking)
             /\ (tx2' # NoCall /\ tx2' # tx2) => marking' = marking
        /\ (pc' = "ready" /\ DOMAIN net'.places = {}) =>
              Len(initial_vector(sm')) = 0 ]_vars

(* C9 witness: after an accepted firing whose output differs from the        *)
(* marking passed in, the caller's marking is still the one passed in.       *)
C9_Witness ==
    /\ Returned /\ tx.ok
    /\ tx.output # call.state
    /\ marking = call.state
    /\ initial_vector(sm) # tx.output

----------------------------------------------------------------------------
(* C10: a machine compiled from a model of type "elementary" or "workflow"   *)
(* has capacity 1 in every slot and an initial of 0 or 1 in every slot, 0    *)
(* exactly when the declared initial count is 0 or absent, whatever          *)
(* capacities the places declare; and the compilation succeeds whenever no   *)
(* declared initial count is negative.                                       *)
C10_ElementaryWorkflowVectors ==
    (pc # "declared" /\ net.model_type \in {"elementary", "workflow"}) =>
        /\ (\A k \in DOMAIN net.places : unwrap_or(net.places[k].initial, 0) >= 0)
              => pc = "ready"
        /\ pc = "ready" =>
              /\ sm.model_type = (IF net.model_type = "elementary"
                                  THEN "Elementary" ELSE "Workflow")
              /\ Len(sm.capacity) = Cardinality(DOMAIN net.places)
              /\ Len(sm.initial) = Cardinality(DOMAIN net.places)
              /\ \A i \in DOMAIN sm.capacity : sm.capacity[i] = 1
              /\ \A i \in DOMAIN sm.initial : sm.initial[i] \in {0, 1}
              /\ \A k \in DOMAIN net.places :
                    (sm.initial[net.places[k].offset + 1] = 0)
                        <=> (unwrap_or(net.places[k].initial, 0) = 0)

(* C10 witness: a compiled workflow machine whose place p declares capacity  *)
(* 0 and an initial count of 2 or more, and whose place q declares a         *)
(* capacity of 2 or more and no initial count.                               *)
C10_Witness ==
    /\ pc = "ready" /\ net.model_type = "workflow"
    /\ DOMAIN net.places = {"p", "q"}
    /\ net.places["p"].capacity = Some(0)
    /\ unwrap_or(net.places["p"].initial, 0) >= 2
    /\ unwrap_or(net.places["q"].capacity, 0) >= 2
    /\ net.places["q"].initial = None
    /\ sm.initial = <<1, 0>> /\ sm.capacity = <<1, 1>>

----------------------------------------------------------------------------
(* C11: when every capacity slot is 0 (unbounded), firing a transition with  *)
(* an empty guard map from a marking within bounds, with any multiplier,     *)
(* never reports overflow = true; a firing that is refused then reports      *)
(* underflow = true (the machine has a place, so a capacity slot that is 0). *)
UnboundedCase ==
    /\ Returned
    /\ \A i \in DOMAIN sm.capacity : sm.capacity[i] = 0
    /\ DOMAIN sm.transitions[call.action].guards = {}
    /\ valid_marking(call.state)

C11_UnboundedNoOverflow ==
    UnboundedCase =>
        /\ ~tx.overflow
        /\ ~tx.inhibited
        /\ (Len(sm.capacity) > 0 /\ ~tx.ok) => tx.underflow

(* C11 witness: on an unbounded net a firing that drives one place above     *)
(* every explored marking and another below zero is refused with underflow   *)
(* alone.                                                                    *)
C11_Witness ==
    /\ UnboundedCase
    /\ Len(sm.capacity) = 2
    /\ \E i \in DOMAIN tx.output : tx.output[i] > MaxTokens
    /\ \E i \in DOMAIN tx.output : tx.output[i] < 0
    /\ ~tx.ok /\ tx.underflow /\ ~tx.overflow

----------------------------------------------------------------------------
(* C12: two-step scenario.  Places p (idle) and q (busy) of capacity 1, a    *)
(* guard-free transition of delta [-1, +1] (allow_reentry as compiled,       *)
(* false): fired from [1, 0] with multiplier 1 it returns output [0, 1] and  *)
(* ok = true; fired again with multiplier 1 from that output, once applied,  *)
(* it returns ok = false and underflow = true, slot 0 going negative.        *)
ScenarioTransition(action) ==
    /\ action \in DOMAIN sm.transitions
    /\ sm.capacity = <<1, 1>>
    /\ sm.transitions[action].delta = <<-1, 1>>
    /\ DOMAIN sm.transitions[action].guards = {}
    /\ ~sm.transitions[action].allow_reentry

FirstFiring(c) ==
    /\ ScenarioTransition(c.action)
    /\ c.state = <<1, 0>>
    /\ c.multiple = 1

SecondFiring ==
    /\ Returned
    /\ trail.last.kind = "applied"
    /\ FirstFiring(trail.last.call)
    /\ call.action = trail.last.call.action
    /\ call.multiple = 1

C12_TwoStepScenario ==
    /\ (Called /\ FirstFiring(call)) =>
          (tx.kind = "transaction" /\ tx.output = <<0, 1>> /\ tx.ok)
    /\ (pc = "ready" /\ trail.last.kind = "applied") =>
          marking = trail.last.tx.output
    /\ SecondFiring =>
          /\ call.state = <<0, 1>>
          /\ ~tx.ok /\ tx.underflow
          /\ tx.output[1] < 0

(* C12 witness: starting from the compiled initial marking [1, 0], the       *)
(* first firing was applied and the second one has been refused.             *)
C12_Witness ==
    /\ SecondFiring
    /\ sm.model_type = "PetriNet"
    /\ trail.origin = "initial"
    /\ trail.last.call.state = initial_vector(sm)
    /\ trail.last.tx.ok
    /\ marking = <<0, 1>>
    /\ ~tx.ok /\ tx.underflow

----------------------------------------------------------------------------
(* C13: totality.  Every vector_add call made returns a result and every     *)
(* transform on a known label returns a Transaction, whatever the lengths    *)
(* of the vectors and the magnitudes of the slots and of the multiplier.     *)
C13_Total ==
    KnownLabel =>
        /\ tx.kind = "transaction"
        /\ \A n \in DOMAIN call.adds : call.adds[n].result.kind = "value"

----------------------------------------------------------------------------
(* C14: the clamp of Workflow firing and the two rules that count its        *)
(* positive slots.  raw is the output of the arithmetic on the transition's  *)
(* delta; given a clamp, the firing takes the reentry path when it is not    *)
(* inhibited, the arithmetic reported overflow, the clamped vector has       *)
(* exactly one positive slot and the transition allows reentry, and it is    *)
(* accepted on that path or when the arithmetic is ok, the clamped vector    *)
(* has exactly one positive slot and no guard inhibits.                      *)
WorkflowCase == Returned /\ sm.model_type = "Workflow"

raw_output == call.adds[1].result.output

clamped_negative_to_zero ==
    [i \in DOMAIN raw_output |-> IF raw_output[i] <= 0 THEN 0 ELSE 1]

workflow_rules(clamped) ==
    LET count == Cardinality({i \in DOMAIN clamped : clamped[i] > 0})
        reentry == /\ ~tx.inhibited
                   /\ call.adds[1].result.overflow
                   /\ count = 1
                   /\ sm.transitions[call.action].allow_reentry
    IN /\ tx.ok = (reentry \/ (call.adds[1].result.ok /\ count = 1 /\ ~tx.inhibited))
       /\ tx.output = (IF reentry THEN clamped ELSE raw_output)

(* C14 as stated: every negative value is clamped to 0, so that a slot       *)
(* driven to any negative value is not counted.                              *)
C14_Original ==
    WorkflowCase => workflow_rules(clamped_negative_to_zero)

(* C14 amended: -1 and 0 are clamped to 0 and every other value, the         *)
(* negative values below -1 included, to 1.  A slot driven to -1 is not      *)
(* counted as an active place; a slot driven below -1 is counted, and the    *)
(* firing is then refused.                                                   *)
C14_WorkflowClamp ==
    WorkflowCase =>
        /\ Len(clamped_raw) = Len(raw_output)
        /\ \A i \in DOMAIN raw_output :
              /\ clamped_raw[i] \in {0, 1}
              /\ (clamped_raw[i] = 0) <=> (raw_output[i] \in {-1, 0})
        /\ workflow_output(raw_output) = clamped_raw
        /\ workflow_rules(clamped_raw)
        /\ (\E i \in DOMAIN raw_output : raw_output[i] < -1) => ~tx.ok

(* C14 witness: a firing that allows reentry and overflows its target is     *)
(* refused because the source, driven to -2, counts as a second active       *)
(* place.                                                                    *)
C14_Witness ==
    /\ WorkflowCase
    /\ sm.transitions[call.action].allow_reentry
    /\ valid_marking(call.state)
    /\ ~tx.inhibited /\ tx.overflow
    /\ \E i \in DOMAIN raw_output : raw_output[i] = -2
    /\ Cardinality({i \in DOMAIN raw_output : raw_output[i] > 0}) = 1
    /\ ~tx.ok

----------------------------------------------------------------------------
(* C15: the fold of the arcs, read off the declared net.  An arc resolves    *)
(* to (place, transition) = (target, source) when read or produce is set     *)
(* and to (source, target) otherwise; its weight defaults to 1.  An arc      *)
(* with inhibit set gives its transition a Guard, keyed by the arc's target, *)
(* whose delta is 0 except -weight at the place's offset and whose read flag *)
(* is the arc's, and never touches the transition's delta, whatever its      *)
(* consume and produce flags; any other arc with consume set writes -weight  *)
(* at the source place's offset of the transition's delta; any other arc     *)
(* writes +weight at the target place's offset.  A later arc writing the     *)
(* same guard key or the same delta slot replaces the earlier one.           *)
arc_weight(a) == unwrap_or(a.weight, 1)
arc_place(a) == IF flag(a.read) \/ flag(a.produce) THEN a.target ELSE a.source
arc_transition(a) == IF flag(a.read) \/ flag(a.produce) THEN a.source ELSE a.target
arc_slot(a) == net.places[IF flag(a.consume) THEN a.source ELSE a.target].offset + 1
arc_signed_weight(a) == IF flag(a.consume) THEN 0 - arc_weight(a) ELSE arc_weight(a)

last_of(S) == CHOOSE n \in S : \A k \in S : k <= n

guard_arcs(l, key) ==
    {n \in DOMAIN net.arcs :
        /\ flag(net.arcs[n].inhibit)
        /\ arc_transition(net.arcs[n]) = l
        /\ net.arcs[n].target = key}

delta_arcs(l, i) ==
    {n \in DOMAIN net.arcs :
        /\ ~flag(net.arcs[n].inhibit)
        /\ arc_transition(net.arcs[n]) = l
        /\ arc_slot(net.arcs[n]) = i}

expected_guard(a) ==
    [delta |-> [i \in 1 .. Len(sm.capacity) |->
                   IF i = net.places[arc_place(a)].offset + 1
                   THEN 0 - arc_weight(a) ELSE 0],
     read |-> flag(a.read)]

C15_ArcFold ==
    pc = "ready" =>
        \A l \in DOMAIN sm.transitions :
            LET t == sm.transitions[l]
            IN /\ DOMAIN t.guards =
                     {key \in {net.arcs[n].target : n \in DOMAIN net.arcs} :
                         guard_arcs(l, key) # {}}
               /\ \A key \in DOMAIN t.guards :
                     t.guards[key] = expected_guard(net.arcs[last_of(guard_arcs(l, key))])
               /\ Len(t.delta) = Len(sm.capacity)
               /\ \A i \in DOMAIN t.delta :
                     t.delta[i] = IF delta_arcs(l, i) = {} THEN 0
                                  ELSE arc_signed_weight(net.arcs[last_of(delta_arcs(l, i))])

(* C15 witness: a compiled net of two arcs into t: an inhibitor from p that  *)
(* has consume set, which left the delta of t at p untouched, and a produce  *)
(* arc without weight, which wrote +1 at q.                                  *)
C15_Witness ==
    /\ pc = "ready"
    /\ DOMAIN net.places = {"p", "q"}
    /\ Len(net.arcs) = 2
    /\ \E n \in DOMAIN net.arcs :
          /\ flag(net.arcs[n].inhibit) /\ flag(net.arcs[n].consume)
          /\ net.arcs[n].source = "p" /\ net.arcs[n].target = "t"
          /\ arc_weight(net.arcs[n]) = MaxWeight
    /\ \E n \in DOMAIN net.arcs :
          /\ net.arcs[n].weight = None /\ flag(net.arcs[n].produce)
          /\ net.arcs[n].source = "t" /\ net.arcs[n].target = "q"
    /\ sm.transitions["t"].delta = <<0, 1>>
    /\ DOMAIN sm.transitions["t"].guards = {"t"}
    /\ sm.transitions["t"].guards["t"] = [delta |-> <<0 - MaxWeight, 0>>, read |-> FALSE]

----------------------------------------------------------------------------
(* C16: markings reached from the initial marking by applying only the       *)
(* outputs of ok Transactions.                                               *)
FromInitial == pc = "ready" /\ trail.origin = "initial"

initial_within_capacity ==
    \A i \in DOMAIN sm.initial :
        sm.capacity[i] > 0 => sm.initial[i] <= sm.capacity[i]

(* C16 as stated: every such marking, the initial one included, has every    *)
(* slot >= 0 and within a positive capacity.                                 *)
C16_Original ==
    FromInitial => valid_marking(marking)

(* C16 amended: every marking reached by applying at least one ok output     *)
(* has every slot >= 0 and within a positive capacity, for every model type  *)
(* and through the Workflow reentry path; the initial marking has every slot *)
(* >= 0, and is within capacity when the declared initial counts are.        *)
C16_ReachableMarkings ==
    FromInitial =>
        /\ Len(marking) = Len(sm.capacity)
        /\ \A i \in DOMAIN marking : marking[i] >= 0
        /\ trail.last.kind = "applied" => valid_marking(marking)
        /\ initial_within_capacity => valid_marking(marking)

(* C16 witness: a Workflow marking reached from the initial one by two       *)
(* applied firings, the second accepted through the reentry path although    *)
(* its raw arithmetic overflowed one slot and underflowed another.           *)
C16_Witness ==
    /\ FromInitial
    /\ sm.model_type = "Workflow"
    /\ trail.last.kind = "applied"
    /\ trail.last.call.state # initial_vector(sm)
    /\ trail.last.tx.ok
    /\ trail.last.call.adds[1].result.overflow
    /\ trail.last.call.adds[1].result.underflow
    /\ marking = trail.last.tx.output

----------------------------------------------------------------------------
(* C17: for Elementary and Workflow machines the output of every ok          *)
(* Transaction has exactly one slot equal to 1 and every other slot equal to *)
(* 0, so every marking obtained by applying an ok output has exactly one     *)
(* active place, whatever the marking before it (the initial marking may     *)
(* have none or several).                                                    *)
one_active(v) ==
    /\ Cardinality({i \in DOMAIN v : v[i] = 1}) = 1
    /\ \A i \in DOMAIN v : v[i] \in {0, 1}

C17_SingleActivePlace ==
    (pc = "ready" /\ sm.model_type \in {"Elementary", "Workflow"}) =>
        /\ (Returned /\ tx.ok) => one_active(tx.output)
        /\ trail.last.kind = "applied" =>
              (one_active(marking) /\ marking = trail.last.tx.output)

(* C17 witness: from an initial marking with two active places, one applied  *)
(* firing has left exactly one.                                              *)
C17_Witness ==
    /\ FromInitial
    /\ sm.model_type \in {"Elementary", "Workflow"}
    /\ Cardinality({i \in DOMAIN sm.initial : sm.initial[i] = 1}) = 2
    /\ trail.last.kind = "applied"
    /\ trail.last.call.state = initial_vector(sm)
    /\ one_active(marking)

----------------------------------------------------------------------------
(* C18: a Transaction with ok = true carries no raised flag: inhibited,      *)
(* overflow and underflow are all false, for every model type and on the     *)
(* Workflow reentry path.                                                    *)
C18_OkCarriesNoFlag ==
    (Returned /\ tx.ok) => (~tx.inhibited /\ ~tx.overflow /\ ~tx.underflow)

----------------------------------------------------------------------------
(* C19: multiplicity law.  For a PetriNet machine, a transition without      *)
(* guards, a marking within bounds and a multiplier m >= 1 (taken here up to *)
(* MaxMultiple), the firing with multiplier m is ok iff m firings with       *)
(* multiplier 1 in sequence are all ok, and then the sequence ends in the    *)
(* output of the single firing.                                              *)
MultiplicityCase ==
    /\ Returned /\ sm.model_type = "PetriNet"
    /\ DOMAIN sm.transitions[call.action].guards = {}
    /\ valid_marking(call.state)
    /\ call.multiple \in 1 .. MaxMultiple

C19_Multiplicity ==
    MultiplicityCase =>
        LET seq == fire_in_sequence(sm, call.state, call.action, call.multiple, None)
        IN /\ tx.ok = seq.ok
           /\ tx.ok => seq.output = tx.output

----------------------------------------------------------------------------
(* C20: an inhibitor arc (inhibit set, read and produce unset) is keyed in   *)
(* its transition's guard map by the arc's target, the transition's own      *)
(* name.  So a compiled transition holds at most one inhibitor guard, that   *)
(* of the last inhibitor arc into it in arc order, however many places       *)
(* inhibit it; the earlier inhibitor arcs change nothing in the compiled     *)
(* machine and nothing in any firing.                                        *)
is_inhibitor_arc(a) == flag(a.inhibit) /\ ~flag(a.read) /\ ~flag(a.produce)

inhibitor_arcs(l) ==
    {n \in DOMAIN net.arcs : is_inhibitor_arc(net.arcs[n]) /\ net.arcs[n].target = l}

RECURSIVE indices_kept(_, _)
indices_kept(arcs, n) ==
    IF n > Len(arcs) THEN << >>
    ELSE IF /\ is_inhibitor_arc(arcs[n])
            /\ inhibitor_arcs(arcs[n].target) # {}
            /\ n # last_of(inhibitor_arcs(arcs[n].target))
         THEN indices_kept(arcs, n + 1)
         ELSE <<n>> \o indices_kept(arcs, n + 1)

(* The machine compiled from the net without its earlier inhibitor arcs,     *)
(* with the allow_reentry flags of sm.                                       *)
without_earlier_inhibitors ==
    LET kept == indices_kept(net.arcs, 1)
        m == from_model([net EXCEPT !.arcs = [k \in DOMAIN kept |-> net.arcs[kept[k]]]])
    IN [m EXCEPT !.transitions =
           [l \in DOMAIN m.transitions |->
               [m.transitions[l] EXCEPT !.allow_reentry = sm.transitions[l].allow_reentry]]]

C20_LastInhibitorWins ==
    pc = "ready" =>
        /\ \A l \in DOMAIN sm.transitions :
              LET g == sm.transitions[l].guards
              IN /\ (l \in DOMAIN g) <=> (inhibitor_arcs(l) # {})
                 /\ inhibitor_arcs(l) # {} =>
                       g[l] = [delta |->
                                  [i \in 1 .. Len(sm.capacity) |->
                                      LET a == net.arcs[last_of(inhibitor_arcs(l))]
                                      IN IF i = net.places[a.source].offset + 1
                                         THEN 0 - arc_weight(a) ELSE 0],
                               read |-> FALSE]
                 /\ \A key \in DOMAIN g : key # l => key \in DOMAIN net.places
        /\ sm = without_earlier_inhibitors
        /\ Returned =>
              \A first \in first_enumerated(sm.transitions[call.action]) :
                  tx = transform(without_earlier_inhibitors, call.state, call.action,
                                 call.multiple, first)

(* C20 witness: t has inhibitor arcs of weight 1 from p and then from q; it  *)
(* is fired with multiplier 1 on a marking within bounds where p holds a     *)
(* token and q none, and is not inhibited.                                   *)
C20_Witness ==
    /\ Returned /\ call.action = "t" /\ call.multiple = 1
    /\ valid_marking(call.state)
    /\ Len(net.arcs) = 2
    /\ is_inhibitor_arc(net.arcs[1]) /\ is_inhibitor_arc(net.arcs[2])
    /\ net.arcs[1].source = "p" /\ net.arcs[2].source = "q"
    /\ net.arcs[1].target = "t" /\ net.arcs[2].target = "t"
    /\ call.state[net.places["p"].offset + 1] >= arc_weight(net.arcs[1])
    /\ call.state[net.places["q"].offset + 1] < arc_weight(net.arcs[2])
    /\ Cardinality(DOMAIN sm.transitions["t"].guards) = 1
    /\ ~tx.inhibited

----------------------------------------------------------------------------
(* C21: a delta slot is assigned, not accumulated.  When several arcs        *)
(* without inhibit connect the same transition and the same place (parallel  *)
(* arcs, or a consume arc and a produce arc forming a self-loop), the        *)
(* compiled delta at that place is the signed weight of the last of them in  *)
(* arc order, and differs from the sum of the produced weights minus the     *)
(* consumed ones whenever the earlier arcs do not cancel out.                *)
RECURSIVE sum_signed_weights(_)
sum_signed_weights(S) ==
    IF S = {} THEN 0
    ELSE LET n == CHOOSE n \in S : TRUE
         IN arc_signed_weight(net.arcs[n]) + sum_signed_weights(S \ {n})

C21_DeltaAssigned ==
    pc = "ready" =>
        \A l \in DOMAIN sm.transitions :
            \A i \in DOMAIN sm.transitions[l].delta :
                LET S == delta_arcs(l, i)
                    d == sm.transitions[l].delta[i]
                IN Cardinality(S) >= 2 =>
                      /\ d = arc_signed_weight(net.arcs[last_of(S)])
                      /\ (d = sum_signed_weights(S))
                            <=> (sum_signed_weights(S \ {last_of(S)}) = 0)

(* C21 witness: a self-loop on p, a consume arc of the largest weight        *)
(* followed by a produce arc of weight 1: the compiled delta at p is +1.     *)
C21_Witness ==
    /\ pc = "ready"
    /\ Len(net.arcs) = 2
    /\ flag(net.arcs[1].consume) /\ ~flag(net.arcs[1].inhibit)
    /\ net.arcs[1].source = "p" /\ net.arcs[1].target = "t"
    /\ arc_weight(net.arcs[1]) = MaxWeight
    /\ flag(net.arcs[2].produce) /\ ~flag(net.arcs[2].inhibit)
    /\ net.arcs[2].source = "t" /\ net.arcs[2].target = "p"
    /\ arc_weight(net.arcs[2]) = 1
    /\ sm.transitions["t"].delta[net.places["p"].offset + 1] = 1
    /\ sum_signed_weights(delta_arcs("t", net.places["p"].offset + 1)) = 1 - MaxWeight

====
